---- MODULE Spec2Model ----
(***************************************************************************)
(* Model of src/main.py: the Appwrite function `main`, which parses a      *)
(* JSON payload, resolves a user identity, fetches stored YouTube Music    *)
(* headers from the Appwrite user preferences, builds a YTMusic client     *)
(* and dispatches one of four actions.                                     *)
(*                                                                         *)
(* One invocation of main is walked through its sections in program order  *)
(* (pc).  The two collaborators (Users.get_prefs, YTMusic) are the         *)
(* environment: each call picks one of their possible outcomes.            *)
(*                                                                         *)
(* Python values:                                                          *)
(*   - payload strings are modelled by their JSON form and, for objects,   *)
(*     by the three keys main reads; a key is Absent, None (JSON null) or  *)
(*     a string;                                                           *)
(*   - a header blob is a record [kind, form, cookie]: kind says whether   *)
(*     the value is missing, None, a str or some other truthy object, form *)
(*     is the JSON form of the str, cookie says whether 'Cookie' occurs in *)
(*     it (as a key, an element or a substring);                           *)
(*   - an f-string is the sequence of its fragments.                       *)
(***************************************************************************)
EXTENDS Integers, Sequences, FiniteSets, TLC

VARIABLES pc, payload_str, env_user_id, payload, auth_headers_str, user_id,
          action, user_prefs, headers, ytmusic, response, raised, events

vars == <<pc, payload_str, env_user_id, payload, auth_headers_str, user_id,
          action, user_prefs, headers, ytmusic, response, raised, events>>

----------------------------------------------------------------------------
(* Python values *)

Absent == "<absent>"
None == "<None>"

YT_HEADERS_PREF_KEY == "ytmusic_headers"

Actions == {"get_library_playlists", "get_home", "get_recommendations", "test_connection"}

\* bool(v) of a payload value (None, str)
Truthy(v) == v \notin {Absent, None, ""}

\* header blobs
Blob(kind, form, cookie) == [kind |-> kind, form |-> form, cookie |-> cookie]
AbsentBlob == Blob("absent", "-", FALSE)
NoneBlob == Blob("none", "-", FALSE)
EmptyBlob == Blob("str", "empty", FALSE)
GoodBlob == Blob("str", "object", TRUE)

\* a plausible slip: `is not None` instead of truthiness
TruthyBlobIsNotNone(b) == b.kind \in {"str", "other"}

\* bool(b) of a header blob value
TruthyBlob(b) == (b.kind = "str" /\ b.form # "empty") \/ b.kind = "other"

\* dict.get(key, default) on a payload field
DictGet(field, default) == IF field = Absent THEN default ELSE field

\* dict.get(key) on a blob-valued field
DictGetBlob(field) == IF field.kind = "absent" THEN NoneBlob ELSE field

----------------------------------------------------------------------------
(* Inputs *)

PayloadUserIds == {Absent, None, "", "u1"}
PayloadActions == {Absent, None, ""} \cup Actions \cup {"unknown_x"}
PayloadAuthHeaders == {AbsentBlob, NoneBlob, EmptyBlob, GoodBlob}
EnvUserIds == {None, "", "envu"}

ObjectPayloads ==
    [form : {"object"}, auth_headers : PayloadAuthHeaders,
     user_id : PayloadUserIds, action : PayloadActions]

OtherPayload(f) ==
    [form |-> f, auth_headers |-> AbsentBlob, user_id |-> Absent, action |-> Absent]

PayloadStrs ==
    ObjectPayloads \cup
    {OtherPayload(f) : f \in {"malformed", "array", "string", "number", "null"}}

\* values that may sit under ytmusic_headers in the user's preferences
StoredBlobs ==
    {AbsentBlob, NoneBlob, EmptyBlob,
     Blob("str", "malformed", FALSE),
     Blob("str", "object", TRUE), Blob("str", "object", FALSE),
     Blob("str", "array", TRUE), Blob("str", "array", FALSE),
     Blob("str", "string", TRUE), Blob("str", "string", FALSE),
     Blob("str", "number", FALSE), Blob("str", "null", FALSE),
     Blob("other", "-", FALSE)}

\* AppwriteException.code: 0 when the SDK has no HTTP status, else the status
AppwriteCodes == {0, 400, 401, 404, 429, 500, 503}

ExcTexts == {"e1", "e2"}
FetchResults == {"r1", "r2"}

PrefsOutcomes ==
    [kind : {"ok"}, value : StoredBlobs, code : {0}, message : {"-"}] \cup
    [kind : {"AppwriteException"}, value : {AbsentBlob}, code : AppwriteCodes, message : ExcTexts] \cup
    [kind : {"Exception"}, value : {AbsentBlob}, code : {0}, message : ExcTexts]

NoPrefs == [kind |-> "unset", value |-> AbsentBlob, code |-> 0, message |-> "-"]

CallOutcomes ==
    [ok : {TRUE}, value : FetchResults] \cup [ok : {FALSE}, value : ExcTexts]

----------------------------------------------------------------------------
(* json.loads *)

JsonType(form) ==
    CASE form = "object" -> "dict"
      [] form = "array" -> "list"
      [] form = "string" -> "str"
      [] form = "number" -> "int"
      [] form = "null" -> "NoneType"
      [] OTHER -> "unset"

NoPayload == [type |-> "unset", auth_headers |-> AbsentBlob, user_id |-> Absent, action |-> Absent]

\* json.loads(payload_str)
JsonLoadsPayload(s) ==
    IF s.form = "malformed"
    THEN [exc |-> "JSONDecodeError", value |-> NoPayload]
    ELSE [exc |-> "",
          value |-> [type |-> JsonType(s.form), auth_headers |-> s.auth_headers,
                     user_id |-> s.user_id, action |-> s.action]]

NoHeaders == [type |-> "unset", cookie |-> FALSE]

\* json.loads(auth_headers_str)
JsonLoadsHeaders(b) ==
    IF b.kind # "str" THEN [exc |-> "TypeError", value |-> NoHeaders]
    ELSE IF b.form \in {"malformed", "empty"} THEN [exc |-> "JSONDecodeError", value |-> NoHeaders]
    ELSE [exc |-> "", value |-> [type |-> JsonType(b.form), cookie |-> b.cookie]]

----------------------------------------------------------------------------
(* Responses: context.res.json(body, status) *)

DefaultStatus == 200

Body(success, error, code, data, message, extras) ==
    [success |-> success, error |-> error, code |-> code, data |-> data,
     message |-> message, extras |-> extras]

ResJson(body, status) == [body |-> body, status |-> status]

ErrorBody(error) == Body(FALSE, error, Absent, Absent, Absent, {})

NoResponse == ResJson(Body(FALSE, <<>>, Absent, Absent, Absent, {}), 0)

Contains(s, part) == \E i \in DOMAIN s : s[i] = part

\* one call to a collaborator: what was called, its limit= argument, whether it
\* returned, and what it returned or the text of what it raised
Call(op, limit, ok, result) == [op |-> op, limit |-> limit, ok |-> ok, result |-> result]

----------------------------------------------------------------------------
(* The decisions main takes *)

IdentityRequiredNoExemption(a, h, u) == ~TruthyBlob(h) /\ ~Truthy(u)

\* lines 77-80: the request is refused for want of an identity
IdentityRequired(a, h, u) == a # "test_connection" /\ ~TruthyBlob(h) /\ ~Truthy(u)

PrefsErrorStatusPassThrough(code) == code

\* line 122: e.code if e.code >= 400 else 500
PrefsErrorStatus(code) == IF code >= 400 THEN code ELSE 500

\* lines 113-117
SetupRequiredResponse ==
    ResJson(Body(FALSE, <<"YouTube Music not configured. Please set up in app settings.">>,
                 "YT_SETUP_REQUIRED", Absent, Absent, {}), 400)

CookieMissingNever(h) == FALSE

\* line 147: 'Cookie' not in headers (dict key, list element, substring)
CookieMissing(h) == ~h.cookie

FetchLimitAlways50(a) == 50

\* the limit= argument of the fetch each action issues
FetchLimit(a) ==
    CASE a = "get_library_playlists" -> 50
      [] a = "get_home" -> 20
      [] a = "get_recommendations" -> 20
      [] a = "test_connection" -> 1
      [] OTHER -> 0

\* the YTMusic method each action calls
FetchMethod(a) == IF a = "test_connection" THEN "get_library_playlists" ELSE a

ApiCallFailedResponseNoText(a, e) ==
    ResJson(ErrorBody(<<"API call failed for action '", a, "'">>), 500)

\* line 216
ApiCallFailedResponse(a, e) ==
    ResJson(ErrorBody(<<"API call failed for action '", a, "': ", e>>), 500)

\* lines 200-204
AuthTestFailedResponse(e) ==
    ResJson(Body(FALSE, <<"Authentication test failed during API call: ", e>>,
                 "YT_API_ERROR", Absent, Absent, {}), 401)

----------------------------------------------------------------------------
(* One invocation of main *)

Init ==
    /\ pc = "idle"
    /\ payload_str = OtherPayload("malformed")
    /\ env_user_id = None
    /\ payload = NoPayload
    /\ auth_headers_str = NoneBlob
    /\ user_id = None
    /\ action = None
    /\ user_prefs = NoPrefs
    /\ headers = NoHeaders
    /\ ytmusic = FALSE
    /\ response = NoResponse
    /\ raised = ""
    /\ events = <<>>

\* return context.res.json(...)
Return(r) == pc' = "returned" /\ response' = r /\ raised' = ""

\* an exception leaves main
Raise(e) == pc' = "raised" /\ raised' = e /\ response' = NoResponse

Continue(next) == pc' = next /\ UNCHANGED <<response, raised>>

\* the platform calls main(context): APPWRITE_FUNCTION_DATA and
\* APPWRITE_FUNCTION_USER_ID are whatever the caller set
Invoke ==
    /\ pc \in {"idle", "returned", "raised"}
    /\ \E p \in PayloadStrs, u \in EnvUserIds :
          payload_str' = p /\ env_user_id' = u
    /\ pc' = "parse"
    /\ payload' = NoPayload
    /\ auth_headers_str' = NoneBlob
    /\ user_id' = None
    /\ action' = None
    /\ user_prefs' = NoPrefs
    /\ headers' = NoHeaders
    /\ ytmusic' = FALSE
    /\ response' = NoResponse
    /\ raised' = ""
    /\ events' = <<>>

\* lines 44-54
ParsePayload ==
    /\ pc = "parse"
    /\ LET r == JsonLoadsPayload(payload_str) IN
         IF r.exc = "JSONDecodeError"
         THEN /\ Return(ResJson(ErrorBody(<<"Invalid JSON payload">>), 400))
              /\ UNCHANGED payload
         ELSE /\ payload' = r.value
              /\ Continue("extract")
    /\ UNCHANGED <<payload_str, env_user_id, auth_headers_str, user_id, action,
                   user_prefs, headers, ytmusic, events>>

\* lines 56-74: payload.get(...) on whatever json.loads returned
ExtractRequest ==
    /\ pc = "extract"
    /\ IF payload.type # "dict"
       THEN /\ Raise("AttributeError")
            /\ UNCHANGED <<auth_headers_str, user_id, action>>
       ELSE /\ auth_headers_str' = DictGetBlob(payload.auth_headers)
            /\ user_id' = DictGet(payload.user_id, env_user_id)
            /\ action' = DictGet(payload.action, None)
            /\ Continue("identity")
    /\ UNCHANGED <<payload_str, env_user_id, payload, user_prefs, headers, ytmusic, events>>

\* lines 76-82
CheckIdentity ==
    /\ pc = "identity"
    /\ IF IdentityRequired(action, auth_headers_str, user_id)
       THEN Return(ResJson(ErrorBody(<<"User authentication required">>), 401))
       ELSE Continue("action")
    /\ UNCHANGED <<payload_str, env_user_id, payload, auth_headers_str, user_id,
                   action, user_prefs, headers, ytmusic, events>>

\* lines 84-89
ValidateAction ==
    /\ pc = "action"
    /\ IF ~Truthy(action)
       THEN Return(ResJson(ErrorBody(<<"Missing 'action' parameter in request">>), 400))
       ELSE Continue("headers")
    /\ UNCHANGED <<payload_str, env_user_id, payload, auth_headers_str, user_id,
                   action, user_prefs, headers, ytmusic, events>>

\* lines 100-125: users.get_prefs(user_id=user_id) and what main makes of it
FetchPrefs(o) ==
    /\ user_prefs' = o
    /\ events' = Append(events, Call("get_prefs", 0, o.kind = "ok", o.message))
    /\ CASE o.kind = "ok" ->
              /\ auth_headers_str' = DictGetBlob(o.value)
              /\ IF ~TruthyBlob(DictGetBlob(o.value))
                 THEN Return(SetupRequiredResponse)
                 ELSE Continue("init")
         [] o.kind = "AppwriteException" ->
              /\ auth_headers_str' = NoneBlob
              /\ Return(ResJson(ErrorBody(<<"Could not retrieve user settings: ", o.message>>),
                                PrefsErrorStatus(o.code)))
         [] OTHER ->
              /\ auth_headers_str' = NoneBlob
              /\ Return(ResJson(ErrorBody(<<"Internal server error (Prefs fetch)">>), 500))

\* lines 93-139: line 94 rebinds auth_headers_str to None before the test of line 97
GetHeaders ==
    /\ pc = "headers"
    /\ LET reset == NoneBlob IN
         IF TruthyBlob(reset)
         THEN /\ auth_headers_str' = reset
              /\ Continue("init")
              /\ UNCHANGED <<user_prefs, events>>
         ELSE IF Truthy(user_id)
         THEN \E o \in PrefsOutcomes : FetchPrefs(o)
         ELSE IF action = "test_connection"
         THEN /\ auth_headers_str' = reset
              /\ Return(ResJson(Body(TRUE, <<>>, Absent, Absent,
                                     "Connection successful but no auth headers available",
                                     {"requires_setup"}), DefaultStatus))
              /\ UNCHANGED <<user_prefs, events>>
         ELSE /\ auth_headers_str' = reset
              /\ Return(ResJson(Body(FALSE,
                                     <<"YouTube Music not configured. No authentication headers available.">>,
                                     "YT_SETUP_REQUIRED", Absent, Absent, {}), 400))
              /\ UNCHANGED <<user_prefs, events>>
    /\ UNCHANGED <<payload_str, env_user_id, payload, user_id, action, headers, ytmusic>>

InitFailed(e) ==
    ResJson(ErrorBody(<<"YouTube Music initialization failed: ", e>>), 500)

\* lines 143-160
InitYTMusic ==
    /\ pc = "init"
    /\ LET r == JsonLoadsHeaders(auth_headers_str) IN
         CASE r.exc = "JSONDecodeError" ->
                \* line 155 formats {e}, which no clause has bound: the handler
                \* itself raises UnboundLocalError
                /\ Raise("UnboundLocalError")
                /\ UNCHANGED <<headers, ytmusic, events>>
           [] r.exc = "TypeError" ->
                /\ Return(InitFailed("TypeError"))
                /\ UNCHANGED <<headers, ytmusic, events>>
           [] OTHER ->
                /\ headers' = r.value
                /\ IF r.value.type \notin {"dict", "list", "str"}
                   THEN \* 'Cookie' not in headers raises TypeError
                        /\ Return(InitFailed("TypeError"))
                        /\ UNCHANGED <<ytmusic, events>>
                   ELSE IF CookieMissing(r.value)
                   THEN /\ Return(ResJson(ErrorBody(
                              <<"Invalid YouTube Music configuration (Missing Cookie). Please re-configure.">>), 400))
                        /\ UNCHANGED <<ytmusic, events>>
                   ELSE IF r.value.type # "dict"
                   THEN \* headers.keys() raises AttributeError
                        /\ Return(InitFailed("AttributeError"))
                        /\ UNCHANGED <<ytmusic, events>>
                   ELSE \E o \in CallOutcomes :
                          /\ events' = Append(events, Call("YTMusic", 0, o.ok, o.value))
                          /\ ytmusic' = o.ok
                          /\ IF o.ok THEN Continue("dispatch")
                                     ELSE Return(InitFailed(o.value))
    /\ UNCHANGED <<payload_str, env_user_id, payload, auth_headers_str, user_id,
                   action, user_prefs>>

\* lines 165-216
PerformAction ==
    /\ pc = "dispatch"
    /\ IF action \in Actions
       THEN \E o \in CallOutcomes :
              /\ events' = Append(events, Call(FetchMethod(action), FetchLimit(action), o.ok, o.value))
              /\ IF o.ok
                 THEN IF action = "test_connection"
                      THEN Return(ResJson(Body(TRUE, <<>>, Absent, Absent,
                                               "Connection and authentication test successful.",
                                               {"headers_found", "python_version"}), DefaultStatus))
                      ELSE Return(ResJson(Body(TRUE, <<>>, Absent, o.value, Absent, {}),
                                          DefaultStatus))
                 ELSE IF action = "test_connection"
                      THEN Return(AuthTestFailedResponse(o.value))
                      ELSE Return(ApiCallFailedResponse(action, o.value))
       ELSE /\ Return(ResJson(ErrorBody(<<"Unknown action: ", action>>), 400))
            /\ UNCHANGED events
    /\ UNCHANGED <<payload_str, env_user_id, payload, auth_headers_str, user_id,
                   action, user_prefs, headers, ytmusic>>

Next ==
    \/ Invoke
    \/ ParsePayload
    \/ ExtractRequest
    \/ CheckIdentity
    \/ ValidateAction
    \/ GetHeaders
    \/ InitYTMusic
    \/ PerformAction

Spec == Init /\ [][Next]_vars

----------------------------------------------------------------------------
(* Vocabulary of the properties *)

Done == pc \in {"returned", "raised"}

Called(op) == \E i \in DOMAIN events : events[i].op = op

IsFetch(e) == e.op \notin {"get_prefs", "YTMusic"}

Fetches == SelectSeq(events, IsFetch)

\* the request as the caller sent it
ObjectRequest == payload_str.form = "object"
NoPayloadAction == payload_str.action \in {Absent, None, ""}
NoUserIdentity == payload_str.user_id \in {Absent, None, ""} /\ env_user_id \in {None, ""}
DirectHeaders == payload_str.auth_headers.kind = "str" /\ payload_str.auth_headers.form # "empty"

StoredValueMissing ==
    /\ user_prefs.kind = "ok"
    /\ user_prefs.value.kind \in {"absent", "none"} \/ user_prefs.value = EmptyBlob

\* a stored str that is not a JSON object with a Cookie key
StoredBlobUnusable ==
    /\ user_prefs.kind = "ok"
    /\ user_prefs.value.kind = "str"
    /\ user_prefs.value.form # "empty"
    /\ user_prefs.value.form # "object" \/ ~user_prefs.value.cookie

FetchRaised ==
    /\ pc = "returned"
    /\ ytmusic
    /\ Len(Fetches) = 1
    /\ ~Fetches[1].ok

----------------------------------------------------------------------------
(* C1 *)

\* C1: whatever the payload and the collaborators do, main ends by returning
\* a response; no exception leaves main.
C1_NoExceptionEscapes == pc # "raised"

----------------------------------------------------------------------------
(* C2 *)

\* C2: a JSON-object payload with no action (absent, null or empty) is answered
\* 400 "Missing 'action' parameter in request" for every user identity and
\* auth_headers, and no collaborator is contacted.
C2_MissingActionIs400 ==
    (Done /\ ObjectRequest /\ NoPayloadAction) =>
        /\ pc = "returned"
        /\ response.status = 400
        /\ response.body.error = <<"Missing 'action' parameter in request">>
        /\ events = <<>>

----------------------------------------------------------------------------
(* C3 *)

\* C3: with no user identity and no direct headers, test_connection is answered
\* success=true, requires_setup=true, status 200, and every other action is
\* answered 401 "User authentication required"; no collaborator is contacted.
C3_IdentityRequiredUnlessTest ==
    (Done /\ ObjectRequest /\ NoUserIdentity /\ ~DirectHeaders) =>
        /\ pc = "returned"
        /\ events = <<>>
        /\ IF payload_str.action = "test_connection"
           THEN /\ response.body.success
                /\ "requires_setup" \in response.body.extras
                /\ response.status = 200
           ELSE /\ ~response.body.success
                /\ response.status = 401
                /\ response.body.error = <<"User authentication required">>

C3_Witness ==
    /\ pc = "returned"
    /\ ObjectRequest /\ NoUserIdentity /\ ~DirectHeaders
    /\ payload_str.action = "test_connection"
    /\ "requires_setup" \in response.body.extras

----------------------------------------------------------------------------
(* C4 *)

\* C4: when the preferences fetch succeeds but holds no value under
\* ytmusic_headers (absent, null or empty), the response is 400 with
\* success=false and code YT_SETUP_REQUIRED, for every action, and the
\* downstream client is neither constructed nor called.
C4_SetupRequired ==
    (Done /\ StoredValueMissing) =>
        /\ pc = "returned"
        /\ response.status = 400
        /\ ~response.body.success
        /\ response.body.code = "YT_SETUP_REQUIRED"
        /\ ~Called("YTMusic")
        /\ Fetches = <<>>

C4_Witness ==
    /\ pc = "returned"
    /\ StoredValueMissing
    /\ user_prefs.value = EmptyBlob
    /\ action = "unknown_x"
    /\ response.body.code = "YT_SETUP_REQUIRED"

----------------------------------------------------------------------------
(* C5 *)

\* C5: a stored blob that is not valid JSON, or not a mapping, or a mapping
\* without Cookie, is answered with a 400 configuration error (success=false)
\* and the downstream client is never constructed or called.
C5_UnusableBlobIs400 ==
    (Done /\ StoredBlobUnusable) =>
        /\ pc = "returned"
        /\ response.status = 400
        /\ ~response.body.success
        /\ ~Called("YTMusic")
        /\ Fetches = <<>>

----------------------------------------------------------------------------
(* C6 *)

\* C6 (as stated): for each of the four actions, a downstream fetch that raises
\* is answered 500, success=false, with an error naming the action and the
\* exception text.
C6_FetchFailureIs500 ==
    FetchRaised =>
        /\ response.status = 500
        /\ ~response.body.success
        /\ Contains(response.body.error, action)
        /\ Contains(response.body.error, Fetches[1].result)

\* C6 (amended): for get_library_playlists, get_home and get_recommendations a
\* fetch that raises is answered 500, success=false, with an error holding the
\* action name and the exception text; for test_connection it is answered 401,
\* success=false, code YT_API_ERROR, with an error holding the exception text.
C6_FetchFailureAmended ==
    FetchRaised =>
        /\ ~response.body.success
        /\ Contains(response.body.error, Fetches[1].result)
        /\ IF action = "test_connection"
           THEN /\ response.status = 401
                /\ response.body.code = "YT_API_ERROR"
           ELSE /\ response.status = 500
                /\ Contains(response.body.error, action)

C6_Witness ==
    /\ FetchRaised
    /\ action = "get_home"
    /\ response.status = 500
    /\ Fetches[1].result = "e2"

----------------------------------------------------------------------------
(* C7 *)

----------------------------------------------------------------------------
(* C8 *)

\* C8: once the client is constructed, get_library_playlists issues exactly one
\* library-playlists fetch with limit 50, get_home one home fetch with limit
\* 20, get_recommendations one recommendations fetch with limit 20 and
\* test_connection one library-playlists fetch with limit 1, each answered
\* success=true when the fetch returns (with the result as data for the first
\* three); any other action issues no fetch and is answered 400
\* "Unknown action: <name>".
C8_Routing ==
    (pc = "returned" /\ ytmusic) =>
        IF action \in Actions
        THEN /\ Len(Fetches) = 1
             /\ Fetches[1].op = (IF action = "test_connection"
                                 THEN "get_library_playlists" ELSE action)
             /\ Fetches[1].limit = (CASE action = "get_library_playlists" -> 50
                                      [] action = "get_home" -> 20
                                      [] action = "get_recommendations" -> 20
                                      [] action = "test_connection" -> 1)
             /\ Fetches[1].ok =>
                  /\ response.body.success
                  /\ response.status = 200
                  /\ action # "test_connection" => response.body.data = Fetches[1].result
        ELSE /\ Fetches = <<>>
             /\ response.status = 400
             /\ response.body.error = <<"Unknown action: ", action>>

C8_Witness ==
    /\ pc = "returned"
    /\ ytmusic
    /\ action = "test_connection"
    /\ Len(Fetches) = 1
    /\ Fetches[1].limit = 1
    /\ response.body.success

----------------------------------------------------------------------------
(* C9 *)

\* C9: auth_headers supplied in the payload are used to build the client and
\* the preferences store is not queried; with direct auth_headers, no user
\* identity and an action, main goes on to construct the client.
C9_DirectHeadersUsed ==
    (Done /\ ObjectRequest /\ DirectHeaders) =>
        /\ ~Called("get_prefs")
        /\ (NoUserIdentity /\ ~NoPayloadAction) => Called("YTMusic")

----------------------------------------------------------------------------
(* C10 *)

\* C10: within one invocation the preferences store is queried at most once and
\* only with a resolved user identity and an action; the client is constructed
\* at most once and only after a blob was obtained and its Cookie entry
\* verified; at most one fetch is issued and only after construction
\* succeeded; after a failed call nothing further is contacted.
C10_PipelineOrder ==
    /\ Len(events) <= 3
    /\ \A i, j \in DOMAIN events :
          /\ (events[i].op = events[j].op \/ (IsFetch(events[i]) /\ IsFetch(events[j]))) => i = j
          /\ (i < j) => events[i].ok
          /\ (i < j /\ events[j].op = "YTMusic") => events[i].op = "get_prefs"
          /\ events[j].op = "get_prefs" => j = 1
    /\ Called("get_prefs") => (user_id \notin {None, ""} /\ action \notin {None, ""})
    /\ Called("YTMusic") =>
          /\ auth_headers_str.kind = "str"
          /\ auth_headers_str.form = "object"
          /\ auth_headers_str.cookie
          /\ headers = [type |-> "dict", cookie |-> TRUE]
    /\ \A j \in DOMAIN events :
          IsFetch(events[j]) =>
              /\ j > 1
              /\ events[j - 1].op = "YTMusic"
              /\ events[j - 1].ok
    /\ (Done /\ events # <<>> /\ ~events[Len(events)].ok) =>
          (pc = "returned" /\ ~response.body.success)

C10_Witness ==
    /\ pc = "returned"
    /\ Len(events) = 3
    /\ events[1].op = "get_prefs"
    /\ events[2].op = "YTMusic"
    /\ events[3].op = "get_home"
    /\ ~events[3].ok

====
